---- MODULE Spec2Model ----
(***************************************************************************)
(* A model of py_nextbus: the NextBusClient of src/py_nextbus/client.py    *)
(* (the "public feed" transport with JSON and XML output), and the         *)
(* single-stop prediction filter and the rate-limit snapshot of the        *)
(* JSON-first revision and the key rotation of the retro revision, whose   *)
(* code is not among the source files and is modelled from the             *)
(* specification.                                                          *)
(*                                                                         *)
(* Python values.  A str is a sequence of tokens: a token is one special   *)
(* character ("&", "=", "|", "?") or a run of characters urlencode leaves  *)
(* alone.  An optional value is None, Str(s) or Int(n).  A value whose     *)
(* type the code inspects carries its type: [type |-> "bool", b |-> TRUE]. *)
(***************************************************************************)
EXTENDS Naturals, Sequences, FiniteSets, TLC

VARIABLES
    output_format,      \* self.output_format
    agency,             \* self.agency
    use_compression,    \* self.use_compression
    rate_limit,             \* the limit of the last successful request
    rate_limit_remaining,   \* its remaining-request count
    rate_limit_reset,       \* its reset time, None when it gave none
    auth_key,               \* the cached authentication key, None when absent
    last,               \* the last call: operation, arguments, the server's
                        \* response, the requests issued and the outcome
    probe               \* a call the caller repeats, and the requests its
                        \* first run issued

\* The attributes __init__ sets.
config == <<output_format, agency, use_compression>>

\* The rate-limit snapshot and the cached key of the later revisions.
tracked == <<rate_limit, rate_limit_remaining, rate_limit_reset, auth_key>>

vars == <<output_format, agency, use_compression, rate_limit,
          rate_limit_remaining, rate_limit_reset, auth_key, last, probe>>

\* ---------------------------------------------------------------- bounds

MaxEntries == 2

\* --------------------------------------------------------- Python values

None == [some |-> FALSE]

Str(s) == [some |-> TRUE, v |-> s]

IsNone(x) == ~x.some

\* bool(x) of an optional str: None and "" are falsy.
Truthy(x) == x.some /\ x.v # <<>>

\* a or b
PyOr(a, b) == IF Truthy(a) THEN a ELSE b

\* An int as an optional value.
Int(n) == [some |-> TRUE, n |-> n]

\* str(x): str(None) is "None", the str of an int is its decimal digits.
PyStr(x) ==
    IF ~x.some THEN <<"None">>
    ELSE IF "n" \in DOMAIN x THEN <<ToString(x.n)>>
    ELSE x.v

\* Values with their types.
PyNone == [type |-> "NoneType"]

PyBool(b) == [type |-> "bool", b |-> b]

PyInt(n) == [type |-> "int", n |-> n]

\* A str as a sequence of characters.
PyString(chars) == [type |-> "str", v |-> chars]

PyList(items) == [type |-> "list", items |-> items]

PyDict(items) == [type |-> "dict", items |-> items]

\* bool(x), the truth value an if statement takes of x
Bool(x) ==
    CASE x.type = "bool" -> x.b
      [] x.type = "NoneType" -> FALSE
      [] x.type = "int" -> x.n # 0
      [] x.type = "str" -> x.v # <<>>
      [] x.type \in {"list", "dict"} -> x.items # <<>>
      [] OTHER -> TRUE

\* str.lower(), character by character
LowerChar(c) ==
    CASE c = "J" -> "j" [] c = "S" -> "s" [] c = "O" -> "o" [] c = "N" -> "n"
      [] c = "X" -> "x" [] c = "M" -> "m" [] c = "L" -> "l" [] c = "F" -> "f"
      [] OTHER -> c

Lower(chars) == [i \in 1..Len(chars) |-> LowerChar(chars[i])]

RECURSIVE Join(_, _)
\* sep.join(items)
Join(sep, items) ==
    IF items = <<>> THEN <<>>
    ELSE IF Len(items) = 1 THEN items[1]
    ELSE items[1] \o sep \o Join(sep, Tail(items))

\* ------------------------------------------------------------- constants

NEXTBUS_XML_FEED_URL == <<"https://retro.umoiq.com/service/publicXMLFeed">>

NEXTBUS_JSON_FEED_URL == <<"https://retro.umoiq.com/service/publicJSONFeed">>

\* class ReturnFormat(Enum)
ReturnFormat == {"json", "xml"}

\* A member of ReturnFormat as a value.
Member(m) == [type |-> "ReturnFormat", member |-> m]

\* ------------------------------------------------------------ exceptions

NoExc == [type |-> "none"]

ValueError == [type |-> "ValueError"]

TypeError == [type |-> "TypeError"]

\* urllib.error.HTTPError with its status code
HTTPError(code) == [type |-> "HTTPError", code |-> code]

\* urllib.error.URLError: the request got no HTTP response
URLError == [type |-> "URLError"]

UnicodeDecodeError == [type |-> "UnicodeDecodeError"]

JSONDecodeError == [type |-> "JSONDecodeError"]

\* NextBusHTTPError(message, http_err): the instance takes over http_err's
\* attributes (its __dict__), the status code among them.
NextBusHTTPError(message, http_err) ==
    [type |-> "NextBusHTTPError", code |-> http_err.code, message |-> message]

NextBusFormatError(message) ==
    [type |-> "NextBusFormatError", message |-> message]

\* -------------------------------------------------------------- __init__

\* ReturnFormat(value): the member whose value it is, else a ValueError.
ReturnFormatOf(value) ==
    IF value = <<"j", "s", "o", "n">> THEN [ok |-> TRUE, v |-> Member("json")]
    ELSE IF value = <<"x", "m", "l">> THEN [ok |-> TRUE, v |-> Member("xml")]
    ELSE [ok |-> FALSE, exc |-> ValueError]

NewClientMutantNoTypeCheck(output_format_arg, agency_arg, use_compression_arg) ==
    LET looked == IF output_format_arg.type = "str"
                  THEN ReturnFormatOf(Lower(output_format_arg.v))
                  ELSE [ok |-> TRUE, v |-> output_format_arg]
    IN  IF ~looked.ok THEN [ok |-> FALSE, exc |-> looked.exc]
        ELSE [ok |-> TRUE,
              output_format |-> IF looked.v.type = "ReturnFormat"
                                THEN looked.v.member ELSE "json",
              agency |-> agency_arg,
              use_compression |-> use_compression_arg]

\* NextBusClient(output_format, agency, use_compression): the attributes of
\* the new instance, or the exception __init__ raised.  use_compression is
\* stored as it is given.
NextBusClient(output_format_arg, agency_arg, use_compression_arg) ==
    LET looked == IF output_format_arg.type = "str"
                  THEN ReturnFormatOf(Lower(output_format_arg.v))
                  ELSE [ok |-> TRUE, v |-> output_format_arg]
    IN  IF ~looked.ok THEN [ok |-> FALSE, exc |-> looked.exc]
        ELSE IF looked.v.type # "ReturnFormat"
        THEN [ok |-> FALSE, exc |-> TypeError]
        ELSE [ok |-> TRUE,
              output_format |-> looked.v.member,
              agency |-> agency_arg,
              use_compression |-> use_compression_arg]

\* ------------------------------------------------------------- RouteStop

RouteStopMutantSwapped(rs) == PyStr(rs.stop_tag) \o <<"|">> \o rs.route_tag

\* RouteStop(route_tag, stop_tag).__str__
RouteStop_str(rs) == rs.route_tag \o <<"|">> \o PyStr(rs.stop_tag)

\* -------------------------------------------------------------- outcomes

NoResult == [tag |-> "none"]

\* The call raised exc (with cause as its __cause__) after issuing requests.
Raised(requests, exc, cause) ==
    [requests |-> requests, status |-> "raised", result |-> NoResult,
     exc |-> exc, cause |-> cause]

\* The call returned result after issuing requests.
Returned(requests, result) ==
    [requests |-> requests, status |-> "returned", result |-> result,
     exc |-> NoExc, cause |-> NoExc]

\* ----------------------------------------------------------- _get_agency

GetAgencyMutantNoCheck(self_agency, agency_arg) ==
    [ok |-> TRUE, v |-> PyOr(agency_arg, self_agency)]

\* NextBusClient._get_agency: agency = agency or self.agency, and a
\* ValueError when that is None.
get_agency(self_agency, agency_arg) ==
    LET a == PyOr(agency_arg, self_agency)
    IN  IF IsNone(a) THEN [ok |-> FALSE, exc |-> ValueError]
        ELSE [ok |-> TRUE, v |-> a]

\* ------------------------------------------------------------- urlencode

\* quote_plus(s, safe="&="): "&" and "=" stay, "|" is percent-encoded, the
\* other tokens hold only characters that are never quoted.
Quote(s) == [i \in 1..Len(s) |-> IF s[i] = "|" THEN "%7C" ELSE s[i]]

\* The server's unquoting of one key or value.
Unquote(s) == [i \in 1..Len(s) |-> IF s[i] = "%7C" THEN "|" ELSE s[i]]

RECURSIVE urlencode(_)
\* urlencode(params, safe="&="): key=value of every item of the dict, in
\* insertion order, joined by "&"; a value is str()-ed before it is quoted.
urlencode(params) ==
    IF params = <<>> THEN <<>>
    ELSE LET p == Head(params)
             item == Quote(p[1]) \o <<"=">> \o Quote(PyStr(p[2]))
         IN  IF Len(params) = 1 THEN item
             ELSE item \o <<"&">> \o urlencode(Tail(params))

RECURSIVE SplitOn(_, _)
\* s.split(sep) of a token sequence: the pieces between the separators.
SplitOn(s, sep) ==
    IF \A i \in 1..Len(s) : s[i] # sep THEN <<s>>
    ELSE LET k == CHOOSE i \in 1..Len(s) :
                      s[i] = sep /\ \A j \in 1..(i - 1) : s[j] # sep
         IN  <<SubSeq(s, 1, k - 1)>> \o SplitOn(SubSeq(s, k + 1, Len(s)), sep)

\* One key=value piece as the server reads it: split at the first "=".
ParseItem(piece) ==
    IF \A i \in 1..Len(piece) : piece[i] # "=" THEN <<Unquote(piece), <<>>>>
    ELSE LET k == CHOOSE i \in 1..Len(piece) :
                      piece[i] = "=" /\ \A j \in 1..(i - 1) : piece[j] # "="
         IN  <<Unquote(SubSeq(piece, 1, k - 1)),
               Unquote(SubSeq(piece, k + 1, Len(piece)))>>

\* The query string as the server reads it: the <<key, value>> pairs, in order.
ParseQuery(q) ==
    IF q = <<>> THEN <<>>
    ELSE LET pieces == SplitOn(q, "&")
         IN  [i \in 1..Len(pieces) |-> ParseItem(pieces[i])]

\* The values the query gives for key, in order.
QueryValues(q, key) ==
    LET items == ParseQuery(q)
        F[i \in 0..Len(items)] ==
            IF i = 0 THEN <<>>
            ELSE IF items[i][1] = key THEN Append(F[i - 1], items[i][2])
            ELSE F[i - 1]
    IN  F[Len(items)]

QueryKeys(q) == {ParseQuery(q)[i][1] : i \in 1..Len(ParseQuery(q))}


\* ------------------------------------------------------------ json.loads

\* json.loads(response_text) of the bytes read: they are decoded as UTF-8
\* (UnicodeDecodeError) and then parsed (JSONDecodeError).  A body is
\* [form, doc]: "json" is the JSON text of doc, "xml" its XML text,
\* "truncated" a JSON text cut short, "bytes" bytes that are not UTF-8 (a
\* gzip-compressed document, say).
json_loads(body) ==
    IF body.form = "bytes" THEN [ok |-> FALSE, exc |-> UnicodeDecodeError]
    ELSE IF body.form = "json" THEN [ok |-> TRUE, value |-> body.doc]
    ELSE [ok |-> FALSE, exc |-> JSONDecodeError]

\* ------------------------------------------------------ _perform_request

BaseUrlMutantAlwaysJson(fmt) == NEXTBUS_JSON_FEED_URL

\* The base URL of _perform_request (for a valid output_format).
base_url(fmt) ==
    IF fmt = "json" THEN NEXTBUS_JSON_FEED_URL ELSE NEXTBUS_XML_FEED_URL

RequestHeadersMutantAlways(compress) ==
    {<<"Accept-Encoding", "gzip, deflate">>}

\* The headers of the request.
request_headers(compress) ==
    IF Bool(compress) THEN {<<"Accept-Encoding", "gzip, deflate">>} ELSE {}

UrlopenMutantRetry(request, resp) ==
    IF resp.kind = "ok" THEN <<request>> ELSE <<request, request>>

\* urllib.request.urlopen(request): the requests put on the wire.
urlopen(request, resp) == <<request>>

DecodeMutantNeverParse(fmt, requests, body) ==
    Returned(requests, [tag |-> "raw", body |-> body])

\* The with-block of _perform_request on the body read, and the except
\* clause for JSONDecodeError around it.
decode(fmt, requests, body) ==
    IF fmt = "json"
    THEN LET r == json_loads(body)
         IN  IF r.ok THEN Returned(requests, [tag |-> "parsed", doc |-> r.value])
             ELSE IF r.exc.type = "JSONDecodeError"
             THEN Raised(requests,
                         NextBusFormatError("Failed to parse JSON from request"),
                         r.exc)
             ELSE Raised(requests, r.exc, NoExc)
    ELSE Returned(requests, [tag |-> "raw", body |-> body])

WrapMutantNoCause(requests, http_err) ==
    Raised(requests, NextBusHTTPError("Error from the NextBus API", http_err),
           NoExc)

\* except HTTPError as exc: raise NextBusHTTPError(..., exc) from exc
wrap_http_error(requests, http_err) ==
    Raised(requests, NextBusHTTPError("Error from the NextBus API", http_err),
           http_err)

PerformRequestMutantSticky(self, params, resp) ==
    IF self.output_format \notin ReturnFormat
    THEN Raised(<<>>, ValueError, NoExc)
    ELSE LET url == base_url(self.output_format) \o <<"?">> \o urlencode(params)
             request == [url |-> url,
                         headers |-> IF probe.seen
                                     THEN {<<"Cookie", "seen">>}
                                     ELSE request_headers(self.use_compression),
                         method |-> "GET"]
             requests == urlopen(request, resp)
         IN  IF resp.kind = "http_error"
             THEN wrap_http_error(requests, HTTPError(resp.code))
             ELSE IF resp.kind = "url_error"
             THEN Raised(requests, URLError, NoExc)
             ELSE decode(self.output_format, requests, resp.body)

PerformRequestMutantNoFormatCheck(self, params, resp) ==
    LET url == base_url(self.output_format) \o <<"?">> \o urlencode(params)
        request == [url |-> url,
                    headers |-> request_headers(self.use_compression),
                    method |-> "GET"]
        requests == urlopen(request, resp)
    IN  IF resp.kind = "http_error"
        THEN wrap_http_error(requests, HTTPError(resp.code))
        ELSE IF resp.kind = "url_error"
        THEN Raised(requests, URLError, NoExc)
        ELSE decode(self.output_format, requests, resp.body)

PerformRequestMutantWrapAll(self, params, resp) ==
    IF self.output_format \notin ReturnFormat
    THEN Raised(<<>>, ValueError, NoExc)
    ELSE LET url == base_url(self.output_format) \o <<"?">> \o urlencode(params)
             request == [url |-> url,
                         headers |-> request_headers(self.use_compression),
                         method |-> "GET"]
             requests == urlopen(request, resp)
         IN  IF resp.kind = "http_error"
             THEN wrap_http_error(requests, HTTPError(resp.code))
             ELSE IF resp.kind = "url_error"
             THEN Raised(requests,
                         [type |-> "NextBusHTTPError", code |-> 0,
                          message |-> "Error from the NextBus API"],
                         URLError)
             ELSE decode(self.output_format, requests, resp.body)

\* NextBusClient._perform_request(params) on a client self, the server
\* answering resp.
perform_request(self, params, resp) ==
    IF self.output_format \notin ReturnFormat
    THEN Raised(<<>>, ValueError, NoExc)
    ELSE LET url == base_url(self.output_format) \o <<"?">> \o urlencode(params)
             request == [url |-> url,
                         headers |-> request_headers(self.use_compression),
                         method |-> "GET"]
             requests == urlopen(request, resp)
         IN  IF resp.kind = "http_error"
             THEN wrap_http_error(requests, HTTPError(resp.code))
             ELSE IF resp.kind = "url_error"
             THEN Raised(requests, URLError, NoExc)
             ELSE decode(self.output_format, requests, resp.body)

\* The query string of a request's URL: what follows the first "?".
UrlQuery(url) ==
    LET k == CHOOSE i \in 1..Len(url) :
                 url[i] = "?" /\ \A j \in 1..(i - 1) : url[j] # "?"
    IN  SubSeq(url, k + 1, Len(url))

UrlBase(url) ==
    LET k == CHOOSE i \in 1..Len(url) :
                 url[i] = "?" /\ \A j \in 1..(i - 1) : url[j] # "?"
    IN  SubSeq(url, 1, k - 1)


\* ---------------------------------------------------------------- inputs

Agencies == {<<>>, <<"sf-muni">>, <<"ttc">>}

AgencyOpt == {None} \cup {Str(a) : a \in Agencies}

RouteTags == {<<"F">>, <<"J">>}

StopTags == {<<"4513">>, <<"9999">>}

DirectionIds == {<<"in">>, <<"out">>}

RouteTagOpt == {None} \cup {Str(r) : r \in RouteTags}

\* Values for the route_tag of get_route_config: "" is a str, not None.
RouteConfigTagOpt == RouteTagOpt \cup {Str(<<>>)}

\* since_time, as seconds since the epoch
SinceTimes == {0, 1700000}

\* Values for route_tags: None, an int, a single str, lists, a tuple, a
\* generator, and a list whose one tag holds "&" and "=".
RouteTagsArgs ==
    {[type |-> "NoneType", items |-> <<>>],
     [type |-> "int", items |-> <<>>],
     [type |-> "str", items |-> <<<<"F">>>>],
     [type |-> "list", items |-> <<>>],
     [type |-> "list", items |-> <<<<"F">>>>],
     [type |-> "list", items |-> <<<<"F">>, <<"J">>>>],
     [type |-> "tuple", items |-> <<<<"J">>, <<"F">>>>],
     [type |-> "generator", items |-> <<<<"J">>>>],
     [type |-> "list", items |-> <<<<"F", "&", "z", "=", "x">>>>]}

RS(route_tag, stop_tag) == [route_tag |-> route_tag, stop_tag |-> stop_tag]

\* Values for route_stops: values that are no collection of RouteStop (None,
\* a bool, an int, a str, an empty dict, an empty set), and lists and a tuple
\* of RouteStop with str and int stop tags, one route tag holding "&" and "=".
RouteStopsArgs ==
    {[type |-> "NoneType", items |-> <<>>],
     [type |-> "bool", items |-> <<>>],
     [type |-> "int", items |-> <<>>],
     [type |-> "str", items |-> <<>>],
     [type |-> "dict", items |-> <<>>],
     [type |-> "set", items |-> <<>>],
     [type |-> "list", items |-> <<>>],
     [type |-> "list", items |-> <<RS(<<"F">>, Str(<<"4513">>))>>],
     [type |-> "list", items |-> <<RS(<<"F">>, Int(4513))>>],
     [type |-> "list",
      items |-> <<RS(<<"F">>, Str(<<"4513">>)), RS(<<"J">>, Int(9999))>>],
     [type |-> "tuple",
      items |-> <<RS(<<"J">>, Str(<<"9999">>)), RS(<<"F">>, Str(<<"4513">>))>>],
     [type |-> "list",
      items |-> <<RS(<<"F", "&", "a", "=", "x">>, Str(<<"4513">>))>>]}

\* Values for the output_format of __init__.
OutputFormatArgs ==
    {PyString(<<"j", "s", "o", "n">>), PyString(<<"J", "S", "O", "N">>),
     PyString(<<"J", "s", "o", "n">>), PyString(<<"x", "m", "l">>),
     PyString(<<"X", "M", "L">>), PyString(<<"X", "m", "l">>),
     PyString(<<"f", "o", "o">>),
     Member("json"), Member("xml"),
     PyNone, PyInt(1), PyBool(TRUE),
     PyList(<<PyString(<<"j", "s", "o", "n">>)>>), PyDict(<<>>)}

\* Values for the use_compression of __init__.
UseCompressionArgs ==
    {PyBool(TRUE), PyBool(FALSE), PyString(<<"T", "r", "u", "e">>), PyInt(1),
     PyNone, PyList(<<PyBool(TRUE)>>)}

IsIterableMutantAnything(x) == TRUE

\* isinstance(x, Iterable)
IsIterable(x) ==
    x.type \in {"str", "list", "tuple", "generator", "dict", "set"}

\* A prediction entry of a payload: its stop id, its route id and the
\* direction ids of its prediction values.
ValueLists == {<<>>, <<<<"in">>>>, <<<<"out">>, <<"in">>>>}

Entries == [stop : StopTags, route : RouteTags, values : ValueLists]

\* The payloads of at most MaxEntries entries.
Payloads == UNION {[1..n -> Entries] : n \in 0..MaxEntries}

\* The documents the feed answers with: the client reads nothing in them.
SampleDocs ==
    LET e1 == [stop |-> <<"4513">>, route |-> <<"F">>,
               values |-> <<<<"out">>, <<"in">>>>]
        e2 == [stop |-> <<"9999">>, route |-> <<"J">>, values |-> <<<<"in">>>>]
    IN  {<<>>, <<e1, e2>>, <<e2, e1>>}

Bodies == [form : {"json", "xml", "truncated", "bytes"}, doc : SampleDocs]

\* The statuses urlopen raises HTTPError for.
ErrorCodes == {401, 404, 500}

NoResponse == [kind |-> "none"]

Responses ==
    {[kind |-> "ok", body |-> b] : b \in Bodies}
    \cup {[kind |-> "http_error", code |-> c] : c \in ErrorCodes}
    \cup {[kind |-> "url_error"]}

\* ------------------------------------------------------------ operations

Item(key, value) == <<<<key>>, value>>

Lit(s) == Str(<<s>>)

\* The call got as far as _perform_request(params).
Request(self, params, resp) ==
    [params |-> params, out |-> perform_request(self, params, resp)]

\* The call raised before it built its parameters.
Invalid(exc) == [params |-> <<>>, out |-> Raised(<<>>, exc, NoExc)]

\* NextBusClient.get_agency_list
get_agency_list(self, resp) ==
    Request(self, <<Item("command", Lit("agencyList"))>>, resp)

GetMessagesMutantAgencyFirst(self, route_tags, ag, resp) ==
    LET a == get_agency(self.agency, ag)
    IN  IF ~a.ok THEN Invalid(a.exc)
        ELSE IF ~IsIterable(route_tags) \/ route_tags.type = "str"
        THEN Invalid(TypeError)
        ELSE Request(self,
                     <<Item("command", Lit("messages")),
                       Item("r", Str(Join(<<"&", "r", "=">>, route_tags.items))),
                       Item("a", a.v)>>,
                     resp)

\* NextBusClient.get_messages
get_messages(self, route_tags, ag, resp) ==
    IF ~IsIterable(route_tags) \/ route_tags.type = "str"
    THEN Invalid(TypeError)
    ELSE LET a == get_agency(self.agency, ag)
         IN  IF ~a.ok THEN Invalid(a.exc)
             ELSE Request(self,
                          <<Item("command", Lit("messages")),
                            Item("r", Str(Join(<<"&", "r", "=">>,
                                               route_tags.items))),
                            Item("a", a.v)>>,
                          resp)

\* NextBusClient.get_route_list
get_route_list(self, ag, resp) ==
    LET a == get_agency(self.agency, ag)
    IN  IF ~a.ok THEN Invalid(a.exc)
        ELSE Request(self,
                     <<Item("command", Lit("routeList")), Item("a", a.v)>>,
                     resp)

GetRouteConfigMutantTruthy(self, route_tag, ag, resp) ==
    LET a == get_agency(self.agency, ag)
        params == <<Item("command", Lit("routeConfig")), Item("a", a.v)>>
    IN  IF ~a.ok THEN Invalid(a.exc)
        ELSE Request(self,
                     IF Truthy(route_tag)
                     THEN Append(params, Item("r", route_tag))
                     ELSE params,
                     resp)

\* NextBusClient.get_route_config
get_route_config(self, route_tag, ag, resp) ==
    LET a == get_agency(self.agency, ag)
        params == <<Item("command", Lit("routeConfig")), Item("a", a.v)>>
    IN  IF ~a.ok THEN Invalid(a.exc)
        ELSE Request(self,
                     IF ~IsNone(route_tag)
                     THEN Append(params, Item("r", route_tag))
                     ELSE params,
                     resp)

\* NextBusClient.get_predictions: route_tag goes into the parameters as it
\* is given, None included.
get_predictions(self, stop_tag, route_tag, ag, resp) ==
    LET a == get_agency(self.agency, ag)
    IN  IF ~a.ok THEN Invalid(a.exc)
        ELSE Request(self,
                     <<Item("command", Lit("predictions")),
                       Item("a", a.v),
                       Item("s", Str(stop_tag)),
                       Item("r", route_tag)>>,
                     resp)

RECURSIVE StrAll(_)
\* str(route_stop) for route_stop in route_stops
StrAll(items) ==
    IF items = <<>> THEN <<>>
    ELSE <<RouteStop_str(Head(items))>> \o StrAll(Tail(items))

\* NextBusClient.get_predictions_for_multi_stops
get_predictions_for_multi_stops(self, route_stops, ag, resp) ==
    IF ~IsIterable(route_stops) \/ route_stops.type = "str"
    THEN Invalid(TypeError)
    ELSE LET a == get_agency(self.agency, ag)
         IN  IF ~a.ok THEN Invalid(a.exc)
             ELSE Request(self,
                          <<Item("command", Lit("predictionsForMultiStops")),
                            Item("stops", Str(Join(<<"&", "stops", "=">>,
                                                   StrAll(route_stops.items)))),
                            Item("a", a.v)>>,
                          resp)

GetScheduleMutantNoRoute(self, route_tag, ag, resp) ==
    LET a == get_agency(self.agency, ag)
    IN  IF ~a.ok THEN Invalid(a.exc)
        ELSE Request(self,
                     <<Item("command", Lit("schedule")), Item("a", a.v)>>,
                     resp)

\* NextBusClient.get_schedule
get_schedule(self, route_tag, ag, resp) ==
    LET a == get_agency(self.agency, ag)
    IN  IF ~a.ok THEN Invalid(a.exc)
        ELSE Request(self,
                     <<Item("command", Lit("schedule")), Item("a", a.v),
                       Item("r", Str(route_tag))>>,
                     resp)

\* NextBusClient.get_vehicle_locations: t is since_time.timestamp() * 1000,
\* a float.
get_vehicle_locations(self, route_tag, since_time, ag, resp) ==
    LET a == get_agency(self.agency, ag)
    IN  IF ~a.ok THEN Invalid(a.exc)
        ELSE Request(self,
                     <<Item("command", Lit("vehicleLocations")),
                       Item("a", a.v),
                       Item("r", Str(route_tag)),
                       Item("t", Str(<<ToString(since_time * 1000), ".", "0">>))>>,
                     resp)


\* ------------------------------------- the JSON-first revision's filter

ValidationError == [type |-> "NextBusValidationError"]

FilterMutantRouteOnly(predictions, stop_id, route_id) ==
    SelectSeq(predictions, LAMBDA ps : ps.route = route_id)

\* The entries whose stop id and route id are the requested ones.
filter_stop_route(predictions, stop_id, route_id) ==
    SelectSeq(predictions, LAMBDA ps : ps.stop = stop_id /\ ps.route = route_id)

FilterMutantDropEntries(predictions, direction_id) ==
    SelectSeq(predictions,
              LAMBDA ps : \A i \in 1..Len(ps.values) : ps.values[i] = direction_id)

\* Within each entry, the values whose direction id is the requested one.
filter_direction(predictions, direction_id) ==
    [i \in 1..Len(predictions) |->
        [predictions[i] EXCEPT
            !.values = SelectSeq(@, LAMBDA value : value = direction_id)]]

\* The agency of a call: the per-call argument, else the instance default,
\* else a validation error.
resolve_agency(self_agency, agency_id) ==
    LET a == IF ~IsNone(agency_id) THEN agency_id ELSE self_agency
    IN  IF IsNone(a) THEN [ok |-> FALSE, exc |-> ValidationError]
        ELSE [ok |-> TRUE, v |-> a]

\* predictions_for_stop(stop_id, route_id, direction_id, agency_id): one GET
\* whose path carries the identifiers, then the corrective filters.
predictions_for_stop(self, stop_id, route_id, direction_id, agency_id, resp) ==
    LET a == resolve_agency(self.agency, agency_id)
        params == IF IsNone(direction_id) THEN <<>>
                  ELSE <<Item("direction", direction_id)>>
        path == <<"agencies">> \o a.v.v
                \o (IF IsNone(route_id) THEN <<>> ELSE <<"routes">> \o route_id.v)
                \o <<"stops">> \o stop_id \o <<"predictions">>
        request == [url |-> path \o <<"?">> \o urlencode(params),
                    headers |-> {}, method |-> "GET"]
        predictions == resp.body.doc
        kept == IF IsNone(route_id) THEN predictions
                ELSE IF IsNone(direction_id)
                THEN filter_stop_route(predictions, stop_id, route_id.v)
                ELSE filter_direction(
                         filter_stop_route(predictions, stop_id, route_id.v),
                         direction_id.v)
    IN  IF ~a.ok THEN Invalid(a.exc)
        ELSE IF ~IsNone(direction_id) /\ IsNone(route_id)
        THEN Invalid(ValidationError)
        ELSE IF resp.kind = "http_error"
        THEN [params |-> params,
              out |-> wrap_http_error(<<request>>, HTTPError(resp.code))]
        ELSE [params |-> params,
              out |-> Returned(<<request>>, [tag |-> "parsed", doc |-> kept])]

\* ------------------------------- the JSON-first revision's rate limits

ZeroDivisionError == [type |-> "ZeroDivisionError"]

\* The value of one decimal digit.
DigitValue(c) ==
    CASE c = "0" -> 0 [] c = "1" -> 1 [] c = "2" -> 2 [] c = "3" -> 3
      [] c = "4" -> 4 [] c = "5" -> 5 [] c = "6" -> 6 [] c = "7" -> 7
      [] c = "8" -> 8 [] c = "9" -> 9

RECURSIVE int_of(_)
\* int(s) of a header value, a sequence of decimal digits
int_of(chars) ==
    IF chars = <<>> THEN 0
    ELSE int_of(SubSeq(chars, 1, Len(chars) - 1)) * 10
         + DigitValue(chars[Len(chars)])

\* The rate-limit headers of a response: X-RateLimit-Limit,
\* X-RateLimit-Remaining and X-RateLimit-Reset, each None when the response
\* lacks it.
NoRateHeaders == [limit |-> None, remaining |-> None, reset |-> None]

RecordMutantKeepLimit(snapshot, headers) ==
    [rate_limit |-> IF snapshot.rate_limit # 0 THEN snapshot.rate_limit
                    ELSE IF IsNone(headers.limit) THEN 0
                    ELSE int_of(headers.limit.v),
     rate_limit_remaining |-> IF IsNone(headers.remaining) THEN 0
                              ELSE int_of(headers.remaining.v),
     rate_limit_reset |-> IF IsNone(headers.reset) THEN None
                          ELSE Int(int_of(headers.reset.v))]

\* The snapshot a successful response leaves: the numbers of its headers, in
\* place of the snapshot before; 0 for a limit or a remaining count it
\* lacks, no reset time when it gives none.
record_rate_limit(snapshot, headers) ==
    [rate_limit |-> IF IsNone(headers.limit) THEN 0
                    ELSE int_of(headers.limit.v),
     rate_limit_remaining |-> IF IsNone(headers.remaining) THEN 0
                              ELSE int_of(headers.remaining.v),
     rate_limit_reset |-> IF IsNone(headers.reset) THEN None
                          ELSE Int(int_of(headers.reset.v))]

\* a / b of two ints: the quotient as a fraction, ZeroDivisionError when b
\* is 0.
divide(a, b) ==
    IF b = 0 THEN [ok |-> FALSE, exc |-> ZeroDivisionError]
    ELSE [ok |-> TRUE, num |-> a, den |-> b]

PercentMutantUnguarded(limit, remaining) ==
    LET q == divide(remaining, limit)
    IN  IF q.ok THEN [ok |-> TRUE, num |-> q.num * 100, den |-> q.den] ELSE q

\* rate_limit_percent: remaining / limit * 100, and 0 when limit is 0.
rate_limit_percent(limit, remaining) ==
    IF limit = 0 THEN [ok |-> TRUE, num |-> 0, den |-> 1]
    ELSE LET q == divide(remaining, limit)
         IN  [ok |-> TRUE, num |-> q.num * 100, den |-> q.den]

\* agencies(): one GET of the agency list.
agencies(self, resp) ==
    LET request == [url |-> <<"agencies">> \o <<"?">>, headers |-> {},
                    method |-> "GET"]
    IN  IF resp.kind = "http_error"
        THEN [params |-> <<>>,
              out |-> wrap_http_error(<<request>>, HTTPError(resp.code))]
        ELSE [params |-> <<>>,
              out |-> Returned(<<request>>,
                               [tag |-> "parsed", doc |-> resp.body.doc])]

\* Header values: decimal digits.
LimitHeaders == {None, Str(<<"0">>), Str(<<"1", "0", "0">>)}

RemainingHeaders ==
    {None, Str(<<"0">>), Str(<<"5", "0">>), Str(<<"1", "0", "0">>)}

ResetHeaders == {None, Str(<<"1", "7", "0", "0", "0", "0", "0">>)}

RateHeaders ==
    [limit : LimitHeaders, remaining : RemainingHeaders, reset : ResetHeaders]

RateResponses ==
    {[kind |-> "ok", headers |-> h, body |-> [form |-> "json", doc |-> <<>>]] :
        h \in RateHeaders}
    \cup {[kind |-> "http_error", code |-> c] : c \in ErrorCodes}

\* ---------------------------------- the retro revision's key rotation

AuthError == [type |-> "NextBusAuthError"]

\* The request of the page the key is scraped from.
KeyPageRequest == [url |-> <<"key-page">>, headers |-> {}, method |-> "GET"]

\* What the page holds: a key, or none to be found.
KeyPages ==
    {[kind |-> "key", key |-> <<"k1">>], [kind |-> "key", key |-> <<"k2">>],
     [kind |-> "no_key"]}

KeyMutantAlwaysFetch(cached, page) ==
    IF page.kind = "key"
    THEN [ok |-> TRUE, v |-> Str(page.key), requests |-> <<KeyPageRequest>>]
    ELSE [ok |-> FALSE, exc |-> AuthError, requests |-> <<KeyPageRequest>>]

\* The key of a request: the cached one, else the one scraped now from the
\* page; AuthError when the page gives none.
get_key(cached, page) ==
    IF ~IsNone(cached) THEN [ok |-> TRUE, v |-> cached, requests |-> <<>>]
    ELSE IF page.kind = "key"
    THEN [ok |-> TRUE, v |-> Str(page.key), requests |-> <<KeyPageRequest>>]
    ELSE [ok |-> FALSE, exc |-> AuthError, requests |-> <<KeyPageRequest>>]

\* routes(agency_id) of the retro client: a GET authenticated with the key;
\* key is the key the instance caches afterwards, none after a 401.
routes(self, agency_id, resp) ==
    LET a == resolve_agency(self.agency, agency_id)
        k == get_key(self.auth_key, resp.page)
        params == <<Item("key", k.v)>>
        request == [url |-> <<"agencies">> \o a.v.v \o <<"routes", "?">>
                            \o urlencode(params),
                    headers |-> {}, method |-> "GET"]
        requests == k.requests \o <<request>>
    IN  IF ~a.ok
        THEN [params |-> <<>>, out |-> Raised(<<>>, a.exc, NoExc),
              key |-> self.auth_key]
        ELSE IF ~k.ok
        THEN [params |-> <<>>, out |-> Raised(k.requests, k.exc, NoExc),
              key |-> None]
        ELSE IF resp.kind = "http_error"
        THEN [params |-> params,
              out |-> wrap_http_error(requests, HTTPError(resp.code)),
              key |-> IF resp.code = 401 THEN None ELSE k.v]
        ELSE [params |-> params,
              out |-> Returned(requests,
                               [tag |-> "parsed", doc |-> resp.body.doc]),
              key |-> k.v]

RetroResponses ==
    {[kind |-> "ok", body |-> [form |-> "json", doc |-> d], page |-> p] :
        d \in SampleDocs, p \in KeyPages}
    \cup {[kind |-> "http_error", code |-> c, page |-> p] :
             c \in ErrorCodes, p \in KeyPages}

\* The JSON-first client's inputs.
ModernAgencyOpt == {None, Str(<<"sf-muni">>), Str(<<"ttc">>)}

DirectionOpt == {None} \cup {Str(d) : d \in DirectionIds}

ModernResponses ==
    {[kind |-> "ok", headers |-> NoRateHeaders,
      body |-> [form |-> "json", doc |-> p]] : p \in Payloads}
    \cup {[kind |-> "http_error", code |-> c] : c \in ErrorCodes}

\* ----------------------------------------------------------- the machine

\* The client instance.
Self ==
    [output_format |-> output_format, agency |-> agency,
     use_compression |-> use_compression, auth_key |-> auth_key]

\* The instance's rate-limit snapshot.
Snapshot ==
    [rate_limit |-> rate_limit, rate_limit_remaining |-> rate_limit_remaining,
     rate_limit_reset |-> rate_limit_reset]

\* The snapshot after a call of the JSON-first client that ended as out on
\* the response resp: a successful request records its headers.
Recorded(out, resp) ==
    LET snapshot == IF out.status = "returned" /\ out.requests # <<>>
                    THEN record_rate_limit(Snapshot, resp.headers)
                    ELSE Snapshot
    IN  /\ rate_limit' = snapshot.rate_limit
        /\ rate_limit_remaining' = snapshot.rate_limit_remaining
        /\ rate_limit_reset' = snapshot.rate_limit_reset

NoCall ==
    [op |-> "none", args |-> [none |-> TRUE], resp |-> NoResponse,
     params |-> <<>>, out |-> [requests |-> <<>>, status |-> "none",
                               result |-> NoResult, exc |-> NoExc,
                               cause |-> NoExc]]

\* The record of a finished call; the response is the one the server gave,
\* if a request reached it.
Completed(op, args, resp, r) ==
    [op |-> op, args |-> args,
     resp |-> IF r.out.requests = <<>> THEN NoResponse ELSE resp,
     params |-> r.params, out |-> r.out]

\* The caller is between two calls: the client is synchronous, and a call
\* starts when the caller has taken the outcome of the one before.
Idle == last.op = "none" /\ output_format # "unset"

\* No call is watched.
NoProbe ==
    [op |-> "none", args |-> [none |-> TRUE], seen |-> FALSE, again |-> FALSE,
     requests |-> <<>>]

\* The caller notes the requests of the first run of the call it repeats,
\* and that the call was run again.
Watch ==
    probe' = IF probe.op = last'.op /\ probe.args = last'.args
             THEN IF ~probe.seen
                  THEN [probe EXCEPT !.seen = TRUE,
                                     !.requests = last'.out.requests]
                  ELSE [probe EXCEPT !.again = TRUE]
             ELSE probe

\* The caller takes the outcome of the call it made.
TakeOutcome ==
    /\ last.op # "none"
    /\ last' = NoCall
    /\ UNCHANGED <<config, tracked, probe>>

\* The record of a construction.
Constructed(args, r) ==
    [op |-> "__init__", args |-> args, resp |-> NoResponse, params |-> <<>>,
     out |-> IF r.ok THEN Returned(<<>>, NoResult)
             ELSE Raised(<<>>, r.exc, NoExc)]

\* The caller has constructed a client, or tried to: when __init__ raised
\* there is no instance, and no attribute is set.
InitClient ==
    /\ \E output_format_arg \in OutputFormatArgs, agency_arg \in AgencyOpt,
          use_compression_arg \in UseCompressionArgs :
           LET r == NextBusClient(output_format_arg, agency_arg,
                                  use_compression_arg)
           IN  /\ output_format = IF r.ok THEN r.output_format ELSE "unset"
               /\ agency = IF r.ok THEN r.agency ELSE None
               /\ use_compression = IF r.ok THEN r.use_compression ELSE PyNone
               /\ last = Constructed([output_format |-> output_format_arg,
                                      agency |-> agency_arg,
                                      use_compression |-> use_compression_arg],
                                     r)
    /\ rate_limit = 0
    /\ rate_limit_remaining = 0
    /\ rate_limit_reset = None
    /\ auth_key = None

Init == InitClient /\ probe = NoProbe

GetAgencyList ==
    /\ Idle
    /\ \E resp \in Responses :
           last' = Completed("get_agency_list", [none |-> TRUE], resp,
                                get_agency_list(Self, resp))
    /\ UNCHANGED <<config, tracked>>
    /\ Watch

GetMessages ==
    /\ Idle
    /\ \E route_tags \in RouteTagsArgs, ag \in AgencyOpt, resp \in Responses :
           last' = Completed("get_messages",
                                [route_tags |-> route_tags, agency |-> ag], resp,
                                get_messages(Self, route_tags, ag, resp))
    /\ UNCHANGED <<config, tracked>>
    /\ Watch

GetRouteListMutantRemember ==
    /\ Idle
    /\ \E ag \in AgencyOpt, resp \in Responses :
           /\ last' = Completed("get_route_list", [agency |-> ag], resp,
                                get_route_list(Self, ag, resp))
           /\ agency' = PyOr(ag, agency)
    /\ UNCHANGED <<output_format, use_compression, tracked>>
    /\ Watch

GetRouteList ==
    /\ Idle
    /\ \E ag \in AgencyOpt, resp \in Responses :
           last' = Completed("get_route_list", [agency |-> ag], resp,
                                get_route_list(Self, ag, resp))
    /\ UNCHANGED <<config, tracked>>
    /\ Watch

GetRouteConfig ==
    /\ Idle
    /\ \E route_tag \in RouteConfigTagOpt, ag \in AgencyOpt, resp \in Responses :
           last' = Completed("get_route_config",
                                [route_tag |-> route_tag, agency |-> ag], resp,
                                get_route_config(Self, route_tag, ag, resp))
    /\ UNCHANGED <<config, tracked>>
    /\ Watch

GetPredictions ==
    /\ Idle
    /\ \E stop_tag \in StopTags, route_tag \in RouteTagOpt,
          ag \in AgencyOpt, resp \in Responses :
           last' = Completed("get_predictions",
                                [stop_tag |-> stop_tag, route_tag |-> route_tag,
                                 agency |-> ag], resp,
                                get_predictions(Self, stop_tag, route_tag, ag, resp))
    /\ UNCHANGED <<config, tracked>>
    /\ Watch

GetPredictionsForMultiStops ==
    /\ Idle
    /\ \E route_stops \in RouteStopsArgs, ag \in AgencyOpt, resp \in Responses :
           last' = Completed("get_predictions_for_multi_stops",
                                [route_stops |-> route_stops, agency |-> ag], resp,
                                get_predictions_for_multi_stops(Self, route_stops,
                                                                ag, resp))
    /\ UNCHANGED <<config, tracked>>
    /\ Watch

GetSchedule ==
    /\ Idle
    /\ \E route_tag \in RouteTags, ag \in AgencyOpt, resp \in Responses :
           last' = Completed("get_schedule",
                                [route_tag |-> route_tag, agency |-> ag], resp,
                                get_schedule(Self, route_tag, ag, resp))
    /\ UNCHANGED <<config, tracked>>
    /\ Watch

GetVehicleLocations ==
    /\ Idle
    /\ \E route_tag \in RouteTags, since_time \in SinceTimes, ag \in AgencyOpt,
          resp \in Responses :
           last' = Completed("get_vehicle_locations",
                                [route_tag |-> route_tag, since_time |-> since_time,
                                 agency |-> ag], resp,
                                get_vehicle_locations(Self, route_tag, since_time,
                                                      ag, resp))
    /\ UNCHANGED <<config, tracked>>
    /\ Watch

Next ==
    \/ GetAgencyList
    \/ GetMessages
    \/ GetRouteList
    \/ GetRouteConfig
    \/ GetPredictions
    \/ GetPredictionsForMultiStops
    \/ GetSchedule
    \/ GetVehicleLocations
    \/ TakeOutcome

Spec == Init /\ [][Next]_vars

\* The calls the caller repeats.
ProbeCalls ==
    {[op |-> "get_route_list", args |-> [agency |-> None],
      seen |-> FALSE, again |-> FALSE, requests |-> <<>>],
     [op |-> "get_messages",
      args |-> [route_tags |-> [type |-> "list",
                                items |-> <<<<"F">>, <<"J">>>>],
                agency |-> Str(<<"ttc">>)],
      seen |-> FALSE, again |-> FALSE, requests |-> <<>>]}

\* The client under a caller who repeats one call among the others.
InitProbe == InitClient /\ probe \in ProbeCalls

SpecProbe == InitProbe /\ [][Next]_vars

\* What a caller assigns to the attribute: a value that is no ReturnFormat.
OutsideFormats == {"foo"}

\* nextbus_client.output_format = "foo": the attribute is overwritten from
\* outside, between two calls.
OverwriteOutputFormat ==
    /\ Idle
    /\ output_format \in ReturnFormat
    /\ output_format' \in OutsideFormats
    /\ UNCHANGED <<agency, use_compression, tracked, last, probe>>

NextOverwrite == Next \/ OverwriteOutputFormat

SpecOverwrite == Init /\ [][NextOverwrite]_vars

\* The JSON-first client: JSON output, and an agency default that is unset
\* or a name.
InitModern ==
    /\ output_format = "json"
    /\ agency \in ModernAgencyOpt
    /\ use_compression = PyBool(TRUE)
    /\ rate_limit = 0
    /\ rate_limit_remaining = 0
    /\ rate_limit_reset = None
    /\ auth_key = None
    /\ last = NoCall
    /\ probe = NoProbe

PredictionsForStop ==
    /\ Idle
    /\ \E stop_id \in StopTags, route_id \in RouteTagOpt,
          direction_id \in DirectionOpt, agency_id \in ModernAgencyOpt,
          resp \in ModernResponses :
           LET r == predictions_for_stop(Self, stop_id, route_id,
                                         direction_id, agency_id, resp)
           IN  /\ last' = Completed("predictions_for_stop",
                                    [stop_id |-> stop_id, route_id |-> route_id,
                                     direction_id |-> direction_id,
                                     agency_id |-> agency_id], resp, r)
               /\ Recorded(r.out, resp)
    /\ UNCHANGED <<config, auth_key, probe>>

NextModern == PredictionsForStop \/ TakeOutcome

SpecModern == InitModern /\ [][NextModern]_vars

\* The JSON-first client's rate-limit snapshot over its agencies() calls.
ListAgencies ==
    /\ Idle
    /\ \E resp \in RateResponses :
           LET r == agencies(Self, resp)
           IN  /\ last' = Completed("agencies", [none |-> TRUE], resp, r)
               /\ Recorded(r.out, resp)
    /\ UNCHANGED <<config, auth_key, probe>>

NextRate == ListAgencies \/ TakeOutcome

SpecRate == InitModern /\ [][NextRate]_vars

\* The retro client: its key is fetched on the first call that needs it.
Routes ==
    /\ Idle
    /\ \E agency_id \in ModernAgencyOpt, resp \in RetroResponses :
           LET r == routes(Self, agency_id, resp)
           IN  /\ last' = Completed("routes", [agency_id |-> agency_id], resp,
                                    r)
               /\ auth_key' = r.key
    /\ UNCHANGED <<config, rate_limit, rate_limit_remaining, rate_limit_reset,
                   probe>>

NextRetro == Routes \/ TakeOutcome

SpecRetro == InitModern /\ [][NextRetro]_vars


\* ---------------------------------------------------------------- claims

\* The operations that take an agency.
AgencyOps ==
    {"get_messages", "get_route_list", "get_route_config", "get_predictions",
     "get_predictions_for_multi_stops", "get_schedule", "get_vehicle_locations"}

\* The value the parameters give for key.
Param(params, key) ==
    params[CHOOSE i \in 1..Len(params) : params[i][1] = <<key>>][2]

HasParam(params, key) == \E i \in 1..Len(params) : params[i][1] = <<key>>

\* The one request of the last call, and the query string of its URL.
TheRequest == last.out.requests[1]

TheQuery == UrlQuery(TheRequest.url)

\* The last call was made with no agency argument on a client with no
\* default agency.
NoAgencyAtAll ==
    /\ last.op \in AgencyOps
    /\ IsNone(last.args.agency)
    /\ IsNone(agency)

\* The collection argument of the last call fails its type check.
BadCollection ==
    \/ /\ last.op = "get_messages"
       /\ last.args.route_tags.type \in {"NoneType", "int", "bool", "str"}
    \/ /\ last.op = "get_predictions_for_multi_stops"
       /\ last.args.route_stops.type \in {"NoneType", "int", "bool", "str"}

\* C1, as stated: with no agency argument and no default agency, every
\* operation that takes an agency raises ValueError and issues no request.
C1_AlwaysValueError ==
    NoAgencyAtAll =>
        /\ last.out.status = "raised"
        /\ last.out.exc.type = "ValueError"
        /\ last.out.requests = <<>>

\* C1, amended: with no agency argument and no default agency, every
\* operation that takes an agency raises and issues no request; the error is
\* ValueError, except that get_messages and get_predictions_for_multi_stops
\* raise TypeError when their collection argument fails its type check.
C1_NoAgencyRaises ==
    NoAgencyAtAll =>
        /\ last.out.status = "raised"
        /\ last.out.result = NoResult
        /\ last.out.exc.type = IF BadCollection THEN "TypeError" ELSE "ValueError"
        /\ last.out.requests = <<>>

C1_Witness ==
    /\ NoAgencyAtAll
    /\ last.op = "get_predictions"
    /\ last.out.exc.type = "ValueError"

\* C2: an agency argument that is not None is the agency of the request,
\* whatever the default; the default is used only when the argument is None.
C2_ArgumentWins ==
    (last.op \in AgencyOps /\ last.params # <<>>) =>
        Param(last.params, "a") =
            IF ~IsNone(last.args.agency) THEN last.args.agency ELSE agency

C4_DirectionFiltersValues ==
    (/\ last.op = "predictions_for_stop"
     /\ last.out.status = "returned"
     /\ ~IsNone(last.args.route_id)
     /\ ~IsNone(last.args.direction_id)) =>
        LET payload == last.resp.body.doc
            result == last.out.result.doc
            matching == {i \in 1..Len(payload) :
                            /\ payload[i].stop = last.args.stop_id
                            /\ payload[i].route = last.args.route_id.v}
        IN  /\ \A i \in 1..Len(result) :
                    \A k \in 1..Len(result[i].values) :
                        result[i].values[k] = last.args.direction_id.v
            /\ Len(result) = Cardinality(matching)

\* An entry survives the direction filter with none of its values.
C4_Witness ==
    /\ last.op = "predictions_for_stop"
    /\ last.out.status = "returned"
    /\ last.args.direction_id = Str(<<"out">>)
    /\ Len(last.resp.body.doc) = 2
    /\ \E i \in 1..Len(last.out.result.doc) :
            last.out.result.doc[i].values = <<>>
    /\ \E i \in 1..Len(last.out.result.doc) :
            last.out.result.doc[i].values = <<<<"out">>>>

\* C5: a get_predictions call with no route id returns the server's payload
\* as it is: the parsed document (JSON), the body (XML).
C5_NoRouteUnfiltered ==
    (/\ last.op = "get_predictions"
     /\ last.out.status = "returned"
     /\ IsNone(last.args.route_tag)) =>
        IF output_format = "json"
        THEN last.out.result = [tag |-> "parsed", doc |-> last.resp.body.doc]
        ELSE last.out.result = [tag |-> "raw", body |-> last.resp.body]

C5_Witness ==
    /\ last.op = "get_predictions"
    /\ last.out.status = "returned"
    /\ IsNone(last.args.route_tag)
    /\ output_format = "json"
    /\ Len(last.out.result.doc) = 2

\* C6: get_predictions sends no route parameter when route_tag is None, and
\* sends the route when it is given.
C6_RouteOptional ==
    (last.op = "get_predictions" /\ last.out.requests # <<>>) =>
        IF IsNone(last.args.route_tag)
        THEN /\ ~HasParam(last.params, "r")
             /\ <<"r">> \notin QueryKeys(TheQuery)
        ELSE /\ Param(last.params, "r") = last.args.route_tag
             /\ QueryValues(TheQuery, <<"r">>) = <<last.args.route_tag.v>>

C8_HttpErrorWrapped ==
    (last.op # "none" /\ last.resp.kind = "http_error") =>
        /\ last.out.status = "raised"
        /\ last.out.result = NoResult
        /\ last.out.exc.type = "NextBusHTTPError"
        /\ last.out.exc.code = last.resp.code
        /\ last.out.cause = [type |-> "HTTPError", code |-> last.resp.code]

C8_Witness ==
    /\ last.op = "get_schedule"
    /\ last.resp.kind = "http_error"
    /\ last.out.exc.type = "NextBusHTTPError"
    /\ last.out.exc.code = 404

\* C9: in JSON mode a body that is not JSON makes the call raise
\* NextBusFormatError and return nothing; in XML mode no call raises
\* NextBusFormatError.
C9_FormatError ==
    (last.op # "none" /\ last.resp.kind = "ok") =>
        IF output_format = "json"
        THEN last.resp.body.form # "json" =>
                 /\ last.out.status = "raised"
                 /\ last.out.exc.type = "NextBusFormatError"
                 /\ last.out.result = NoResult
        ELSE last.out.exc.type # "NextBusFormatError"

\* C10: a call that passes validation (it built its parameters, and the
\* output format is one of ReturnFormat) issues exactly one GET; it returns the
\* whole decoded response when the server answers with one the format
\* accepts, and raises, with no result, in every other case.
C10_OneRequestPerCall ==
    (last.op # "none" /\ last.params # <<>> /\ output_format \in ReturnFormat) =>
        /\ Len(last.out.requests) = 1
        /\ TheRequest.method = "GET"
        /\ last.out.status \in {"returned", "raised"}
        /\ last.out.status = "returned" <=>
               /\ last.resp.kind = "ok"
               /\ output_format = "json" => last.resp.body.form = "json"
        /\ last.out.status = "returned" =>
               /\ last.out.exc = NoExc
               /\ last.out.result # NoResult
               /\ last.out.result \in
                      {[tag |-> "parsed", doc |-> last.resp.body.doc],
                       [tag |-> "raw", body |-> last.resp.body]}
        /\ last.out.status = "raised" =>
               /\ last.out.exc # NoExc
               /\ last.out.result = NoResult

\* A failed request: one GET, and the error raised.
C10_Witness ==
    /\ last.op = "get_vehicle_locations"
    /\ last.resp.kind = "url_error"
    /\ Len(last.out.requests) = 1
    /\ last.out.status = "raised"

\* The last call is a get_predictions_for_multi_stops that built its
\* parameters from a list or a tuple of RouteStop.
MultiStopsCall ==
    /\ last.op = "get_predictions_for_multi_stops"
    /\ last.params # <<>>
    /\ last.args.route_stops.type \in {"list", "tuple"}

\* C11: the str of a RouteStop is its route tag, one "|" and its stop tag,
\* the decimal digits of the stop tag when it is an int; it is what a call
\* with that one RouteStop gives as its stops parameter, and
\* RouteStop("F", "4513") gives "F|4513".
C11_RouteStopSerializes ==
    (MultiStopsCall /\ Len(last.args.route_stops.items) = 1) =>
        LET rs == last.args.route_stops.items[1]
            stops == Param(last.params, "stops")
        IN  /\ rs.stop_tag \in {Str(s) : s \in StopTags} =>
                   stops = Str(rs.route_tag \o <<"|">> \o rs.stop_tag.v)
            /\ rs.stop_tag = Int(4513) =>
                   stops = Str(rs.route_tag \o <<"|", "4513">>)
            /\ rs.stop_tag = Int(9999) =>
                   stops = Str(rs.route_tag \o <<"|", "9999">>)
            /\ rs = RS(<<"F">>, Str(<<"4513">>)) =>
                   stops = Str(<<"F", "|", "4513">>)

\* A call with one RouteStop whose stop tag is an int.
C11_Witness ==
    /\ MultiStopsCall
    /\ last.args.route_stops.items = <<RS(<<"F">>, Int(4513))>>
    /\ Param(last.params, "stops") = Str(<<"F", "|", "4513">>)

\* C12, as stated: a get_predictions_for_multi_stops call that reaches the
\* server issues one request, and the server reads in its query one stops key
\* per (route, stop) pair, in the order given, each with the "<route>|<stop>"
\* of its pair.
C12_StopsOncePerPair ==
    (MultiStopsCall /\ last.out.requests # <<>>) =>
        /\ Len(last.out.requests) = 1
        /\ QueryValues(TheQuery, <<"stops">>) =
               StrAll(last.args.route_stops.items)

\* The spellings of "json" and "xml" among the output_format arguments.
JsonSpellings ==
    {<<"j", "s", "o", "n">>, <<"J", "S", "O", "N">>, <<"J", "s", "o", "n">>}

XmlSpellings == {<<"x", "m", "l">>, <<"X", "M", "L">>, <<"X", "m", "l">>}

C17_UseCompressionValidated ==
    (last.op = "__init__"
        /\ last.args.output_format \in {Member("json"), Member("xml")}) =>
        IF last.args.use_compression.type = "bool"
        THEN last.out.status = "returned"
        ELSE last.out.status = "raised" /\ last.out.exc = TypeError

\* C18: a request carries Accept-Encoding: "gzip, deflate", and no other
\* header, when the client's use_compression is true, and no header at all
\* when it is false; the code takes the flag's truth value, so a flag that
\* is not a bool counts as true when it is truthy.
C18_AcceptEncodingIffCompression ==
    (last.op # "none" /\ last.out.requests # <<>>) =>
        /\ use_compression = PyBool(TRUE) =>
               TheRequest.headers = {<<"Accept-Encoding", "gzip, deflate">>}
        /\ use_compression = PyBool(FALSE) => TheRequest.headers = {}
        /\ TheRequest.headers =
               IF Bool(use_compression)
               THEN {<<"Accept-Encoding", "gzip, deflate">>} ELSE {}

\* A request of a client whose use_compression is False.
C18_Witness ==
    /\ last.op = "get_route_list"
    /\ use_compression = PyBool(FALSE)
    /\ Len(last.out.requests) = 1
    /\ TheRequest.headers = {}

\* C19, as stated: get_predictions_for_multi_stops raises TypeError and
\* issues no request when route_stops is a dict, a set, None, a bool, a str
\* or an int, and raises no TypeError for a list of RouteStop.
C19_RouteStopsTypeChecked ==
    last.op = "get_predictions_for_multi_stops" =>
        /\ last.args.route_stops.type
               \in {"dict", "set", "NoneType", "bool", "str", "int"} =>
               /\ last.out.status = "raised"
               /\ last.out.exc = TypeError
               /\ last.out.requests = <<>>
        /\ last.args.route_stops.type = "list" => last.out.exc # TypeError

SuccessfulRequest ==
    /\ last.op = "agencies"
    /\ last.out.status = "returned"
    /\ Len(last.out.requests) = 1

\* The numbers the header values of the inputs stand for.
HeaderNumbers ==
    {<<Str(<<"0">>), 0>>, <<Str(<<"5", "0">>), 50>>,
     <<Str(<<"1", "0", "0">>), 100>>,
     <<Str(<<"1", "7", "0", "0", "0", "0", "0">>), 1700000>>}

\* C13: after a successful request the tracked limit, remaining count and
\* reset time are the numbers of that response's X-RateLimit-Limit,
\* X-RateLimit-Remaining and X-RateLimit-Reset headers, whatever was
\* recorded before.
C13_SnapshotIsLastResponse ==
    SuccessfulRequest =>
        \A hn \in HeaderNumbers :
            /\ last.resp.headers.limit = hn[1] => rate_limit = hn[2]
            /\ last.resp.headers.remaining = hn[1] =>
                   rate_limit_remaining = hn[2]
            /\ last.resp.headers.reset = hn[1] =>
                   rate_limit_reset = Int(hn[2])

\* A successful response with all three headers, recorded.
C13_Witness ==
    /\ SuccessfulRequest
    /\ last.resp.headers =
           [limit |-> Str(<<"1", "0", "0">>), remaining |-> Str(<<"5", "0">>),
            reset |-> Str(<<"1", "7", "0", "0", "0", "0", "0">>)]
    /\ rate_limit = 100
    /\ rate_limit_remaining = 50
    /\ rate_limit_reset = Int(1700000)

\* C14: a successful response that lacks the limit header leaves the
\* tracked limit at 0, one that lacks the remaining header leaves the
\* remaining count at 0; rate_limit_percent never fails, is 0 when the limit
\* is 0, and is remaining / limit * 100 otherwise.
C14_MissingHeadersAndPercent ==
    LET percent == rate_limit_percent(rate_limit, rate_limit_remaining)
    IN  /\ SuccessfulRequest =>
               /\ IsNone(last.resp.headers.limit) => rate_limit = 0
               /\ IsNone(last.resp.headers.remaining) =>
                      rate_limit_remaining = 0
        /\ percent.ok
        /\ rate_limit = 0 => percent.num = 0 /\ percent.den # 0
        /\ rate_limit # 0 =>
               /\ percent.den # 0
               /\ percent.num * rate_limit
                      = rate_limit_remaining * 100 * percent.den

\* A successful response without rate-limit headers, after which the
\* percentage reads 0.
C14_Witness ==
    /\ SuccessfulRequest
    /\ last.resp.headers = NoRateHeaders
    /\ rate_limit = 0
    /\ rate_limit_percent(rate_limit, rate_limit_remaining)
           = [ok |-> TRUE, num |-> 0, den |-> 1]

\* C15: a call on a client with no cached key first fetches one, sends it,
\* and caches it; a call on a client with a cached key sends that key and
\* fetches none; a 401 response leaves the client with no cached key, any
\* other response leaves it with the key the request carried; and nothing
\* but a call changes the cached key.
C15_KeyRotation ==
    [][/\ last'.op # "routes" => auth_key' = auth_key
       /\ (last'.op = "routes" /\ last'.params # <<>>) =>
              LET requests == last'.out.requests
                  sent == Param(last'.params, "key")
              IN  /\ ~IsNone(auth_key) =>
                         /\ Len(requests) = 1
                         /\ requests[1] # KeyPageRequest
                         /\ sent = auth_key
                  /\ IsNone(auth_key) =>
                         /\ Len(requests) = 2
                         /\ requests[1] = KeyPageRequest
                         /\ requests[2] # KeyPageRequest
                         /\ sent = Str(last'.resp.page.key)
                  /\ QueryValues(UrlQuery(requests[Len(requests)].url),
                                 <<"key">>) = <<sent.v>>
                  /\ auth_key' = IF last'.resp.kind = "http_error"
                                     /\ last'.resp.code = 401
                                  THEN None ELSE sent]_vars

\* A call that reused the cached key: one request, and the key still cached.
C15_Witness ==
    /\ last.op = "routes"
    /\ last.params # <<>>
    /\ last.resp.kind = "ok"
    /\ Len(last.out.requests) = 1
    /\ auth_key = Param(last.params, "key")

\* C21, as stated: a get_messages call that reaches the server issues one
\* request, and the server reads in its query one r key per route tag, in
\* the order given, each with its tag.
C21_RouteOncePerTag ==
    (last.op = "get_messages" /\ last.out.requests # <<>>) =>
        /\ Len(last.out.requests) = 1
        /\ QueryValues(TheQuery, <<"r">>) = last.args.route_tags.items

\* C22: the parameters get_route_config hands to the request are the
\* routeConfig command and the resolved agency, and after them r with the
\* route tag exactly when route_tag is not None, the empty tag included.
C22_RouteConfigParams ==
    (last.op = "get_route_config" /\ last.params # <<>>) =>
        LET base == <<Item("command", Lit("routeConfig")),
                      Item("a", PyOr(last.args.agency, agency))>>
        IN  IF IsNone(last.args.route_tag) THEN last.params = base
            ELSE last.params = Append(base, Item("r", last.args.route_tag))

\* A call with the empty route tag, which is sent.
C22_Witness ==
    /\ last.op = "get_route_config"
    /\ last.args.route_tag = Str(<<>>)
    /\ Len(last.out.requests) = 1
    /\ Param(last.params, "r") = Str(<<>>)

\* The keys of the parameters, and that none is repeated.
ParamKeys(params) == {params[i][1] : i \in 1..Len(params)}

DistinctKeys(params) == Cardinality(ParamKeys(params)) = Len(params)

C24_AgencyNeverEmpty ==
    (last.op \in AgencyOps /\ last.out.requests # <<>>) =>
        Truthy(Param(last.params, "a"))

\* C27, as stated: the server reads in the query exactly the keys of the
\* parameters, and for every key but the repeated one (r of get_messages,
\* stops of get_predictions_for_multi_stops) the one value the parameters
\* give it.
C27_NoInjectedKeys ==
    (last.op # "none" /\ last.out.requests # <<>>) =>
        /\ QueryKeys(TheQuery) = ParamKeys(last.params)
        /\ \A i \in 1..Len(last.params) :
               \/ last.op = "get_messages" /\ last.params[i][1] = <<"r">>
               \/ /\ last.op = "get_predictions_for_multi_stops"
                  /\ last.params[i][1] = <<"stops">>
               \/ QueryValues(TheQuery, last.params[i][1])
                      = <<PyStr(last.params[i][2])>>

\* C28: in get_messages and get_predictions_for_multi_stops the collection
\* is checked before the agency is resolved: with no agency at all, a
\* collection that fails its check raises TypeError, any other raises the
\* ValueError of the agency, and in both cases no request is issued.
C28_CollectionBeforeAgency ==
    (last.op \in {"get_messages", "get_predictions_for_multi_stops"}
        /\ NoAgencyAtAll) =>
        /\ last.out.status = "raised"
        /\ last.out.requests = <<>>
        /\ last.out.exc = IF BadCollection THEN TypeError ELSE ValueError

\* A get_messages call with neither route tags nor an agency.
C28_Witness ==
    /\ last.op = "get_messages"
    /\ last.args.route_tags.type = "NoneType"
    /\ NoAgencyAtAll
    /\ last.out.exc = TypeError

C25_ConfigurationUnchanged ==
    [][/\ output_format' = output_format
       /\ agency' = agency
       /\ use_compression' = use_compression
       /\ (last' # last /\ last'.op \in AgencyOps /\ last'.params # <<>>
              /\ IsNone(last'.args.agency)) =>
              Param(last'.params, "a") = agency]_vars

\* A call with an agency other than the default, which is still the default.
C25_Witness ==
    /\ last.op = "get_route_list"
    /\ last.args.agency = Str(<<"ttc">>)
    /\ agency = Str(<<"sf-muni">>)
    /\ Len(last.out.requests) = 1
    /\ Param(last.params, "a") = Str(<<"ttc">>)

\* The last call is the one the caller repeats.
ProbeRun == probe.op = last.op /\ probe.args = last.args

\* C26: every run of the repeated call issues the requests its first run
\* issued, whatever calls, with whatever outcomes, came in between.
C26_SameCallSameRequest ==
    (probe.seen /\ ProbeRun) => last.out.requests = probe.requests

\* A later run of the repeated call, which failed after its one request.
C26_Witness ==
    /\ probe.again
    /\ ProbeRun
    /\ Len(last.out.requests) = 1
    /\ last.out.status = "raised"
    /\ last.out.requests = probe.requests

\* C29: a constructed client's output_format is a ReturnFormat, no call
\* changes it, and a call on such a client that built its parameters issues
\* its request; once the attribute is overwritten from outside, such a call
\* raises ValueError and issues no request.
C29_InvalidFormatOnlyFromOutside ==
    [][/\ (last.op = "__init__" /\ last.out.status = "returned") =>
              output_format \in ReturnFormat
       /\ last' # last => output_format' = output_format
       /\ (last' # last /\ last'.op \notin {"none", "__init__"}
              /\ last'.params # <<>>) =>
              IF output_format \in ReturnFormat
              THEN Len(last'.out.requests) = 1
              ELSE last'.out = Raised(<<>>, ValueError, NoExc)]_vars

\* A call on a client whose output_format was overwritten with "foo".
C29_Witness ==
    /\ output_format = "foo"
    /\ last.op = "get_route_list"
    /\ last.params # <<>>
    /\ last.out = Raised(<<>>, ValueError, NoExc)

====
